---- MODULE Spec2Model ----
(***************************************************************************)
(* Stage verification of ergo-protocol-framework (src/stage.rs).           *)
(*                                                                         *)
(* A Stage<ST> holds hardcoded values, a P2S address string and a          *)
(* verification predicate (a plain fn pointer).  verify_box(&self, &b)     *)
(* re-encodes the box's ergo tree as a Mainnet P2S address, compares it    *)
(* with the stored string, applies the predicate and, when both pass,      *)
(* returns a StageBox<ST> holding a clone of the box.                      *)
(*                                                                         *)
(* Several caller threads share the stages by reference; each verify_box   *)
(* call is modelled statement by statement so that calls interleave.       *)
(***************************************************************************)
EXTENDS Integers, Sequences, FiniteSets, TLC

\* Number of caller threads that may be inside verify_box at once.
NumThreads == 2

Threads == 1..NumThreads

---------------------------------------------------------------------------
(* Data *)

\* The stage marker types (implementors of StageType) of the protocol.
StageTypes == {"StageA", "StageB"}

\* ST::new(): the zero-sized marker value of stage type ST.
StageTypeNew(ST) == ST

NoStage == "NoStage"
NoBox == "NoBox"

\* Ergo trees (locking scripts) the boxes of the model are guarded by.
ErgoTrees == {[header |-> 0, root |-> 1], [header |-> 0, root |-> 2]}

\* ErgoBox: script, nanoErg value, token holdings, register R4.
Boxes ==
    [ergo_tree : ErgoTrees,
     value     : {50, 150},
     tokens    : {<<>>, <<[token_id |-> 7, amount |-> 1]>>},
     r4        : {"absent", "present"}]

\* HashMap<String, Constant>: the constants baked into the contract that a
\* caller registers together with the predicate p checking that contract.
HardcodedValuesFor(p) ==
    CASE p = "min_amount" -> {<<"min_amount", 100>>}
      [] p = "staged" -> {<<"stage_token", 7>>, <<"min_amount", 100>>}
      [] OTHER -> {}

\* b.ergo_tree.sigma_serialise_bytes(): header byte followed by the root.
SigmaSerialiseBytes(tree) == <<tree.header, tree.root>>

\* Address::P2S(bytes)
AddressP2S(bytes) == [kind |-> "P2S", content |-> bytes]

NetworkPrefixes == {"Mainnet", "Testnet"}

NetworkByte(network) == IF network = "Mainnet" THEN 0 ELSE 16

AddressTypeByte(address) == IF address.kind = "P2S" THEN 3 ELSE 1

RECURSIVE SumBytes(_)
SumBytes(s) == IF s = <<>> THEN 0 ELSE Head(s) + SumBytes(Tail(s))

\* Stand-in for the 4-byte hash checksum the encoder appends.
Checksum(bytes) == (SumBytes(bytes) * 31 + Len(bytes)) % 256

\* AddressEncoder::new(network).address_to_str(&address): prefix byte
\* (network + address type), the content bytes and a checksum over both.
\* The base58 text of these bytes is represented by the bytes themselves.
AddressToStr(network, address) ==
    LET body == <<NetworkByte(network) + AddressTypeByte(address)>> \o address.content
    IN  body \o <<Checksum(body)>>

\* P2S address strings handed to Stage::new by callers of the model.
P2SAddressStrings ==
    {AddressToStr(n, AddressP2S(SigmaSerialiseBytes(tree))) :
        n \in NetworkPrefixes, tree \in ErgoTrees}

\* Result<T> = std::result::Result<T, BoxVerificationError>.  The payload of
\* Ok is kept as a sequence: empty for Ok(()), one StageBox for Ok(stage_box).
Ok(v) == [tag |-> "Ok", value |-> v, error |-> "none", reason |-> ""]
Err(kind, reason) == [tag |-> "Err", value |-> <<>>, error |-> kind, reason |-> reason]

\* The result slot of a thread that is not holding a returned value.
NoResult == [tag |-> "None", value |-> <<>>, error |-> "none", reason |-> ""]

InvalidP2SAddress == Err("InvalidP2SAddress", "")
InvalidErgsValue(reason) == Err("InvalidErgsValue", reason)
InvalidTokens(reason) == Err("InvalidTokens", reason)
InvalidRegisters(reason) == Err("InvalidRegisters", reason)
OtherError(reason) == Err("OtherError", reason)

\* The variants of BoxVerificationError.
ErrorKinds ==
    {"InvalidP2SAddress", "InvalidErgsValue", "InvalidTokens",
     "InvalidRegisters", "OtherError"}

\* fn(&ErgoBox) -> Result<()> pointers callers pass as verification_predicate.
Predicates == {"always_ok", "min_amount", "staged"}

\* (self.verification_predicate)(b)
ApplyPredicate(p, b) ==
    CASE p = "always_ok" -> Ok(<<>>)
      [] p = "min_amount" ->
            IF b.value >= 100 THEN Ok(<<>>)
            ELSE InvalidErgsValue("amount below minimum")
      [] p = "staged" ->
            IF b.tokens = <<>> THEN InvalidTokens("no stage token")
            ELSE IF b.r4 = "absent" THEN InvalidRegisters("R4 is empty")
            ELSE IF b.value < 100 THEN OtherError("box is dust")
            ELSE Ok(<<>>)

\* A clone that forgets the box's token holdings.
CloneWithoutTokens(b) ==
    [ergo_tree |-> b.ergo_tree, value |-> b.value, tokens |-> <<>>, r4 |-> b.r4]

\* b.clone(): a field-by-field copy of the box.
Clone(b) ==
    [ergo_tree |-> b.ergo_tree, value |-> b.value, tokens |-> b.tokens, r4 |-> b.r4]

\* The Stage struct literal of Stage::new.
NewStage(ST, hardcoded_values, p2s_address, verification_predicate) ==
    [hardcoded_values       |-> hardcoded_values,
     p2s_address            |-> p2s_address,
     verification_predicate |-> verification_predicate,
     stage_type             |-> StageTypeNew(ST)]

\* The recomputation done with the Testnet encoder instead.
RecomputedAddressTestnet(b) ==
    AddressToStr("Testnet", AddressP2S(SigmaSerialiseBytes(b.ergo_tree)))

\* The address verify_box recomputes for a box: always under Mainnet.
RecomputedAddress(b) ==
    AddressToStr("Mainnet", AddressP2S(SigmaSerialiseBytes(b.ergo_tree)))

\* self.p2s_address == encoder.address_to_str(&address)
AddressMatches(stage, b) == stage.p2s_address = RecomputedAddress(b)

\* The StageBox struct literal of verify_box.
NewStageBox(stage, b) ==
    [stage     |-> StageTypeNew(stage.stage_type),
     predicate |-> stage.verification_predicate,
     ergo_box  |-> Clone(b)]

\* verify_box as a function of its two arguments (one call run alone).
verify_box(stage, b) ==
    IF ~AddressMatches(stage, b) THEN InvalidP2SAddress
    ELSE IF ApplyPredicate(stage.verification_predicate, b).tag = "Err"
         THEN ApplyPredicate(stage.verification_predicate, b)
         ELSE Ok(<<NewStageBox(stage, b)>>)

---------------------------------------------------------------------------
(* State *)

VARIABLES
    stages,       \* stage type -> the Stage built for it (built stages only)
    constructed,  \* stage type -> the arguments Stage::new was called with
    pc,           \* thread -> its position in verify_box
    self_ref,     \* thread -> stage type of the &self of its call
    boxes,        \* thread -> the caller's box, borrowed as b by its call
    passed,       \* thread -> the box as it was when the call was made
    evals,        \* thread -> predicate invocations made by its call
    result        \* thread -> the value its call returned

vars == <<stages, constructed, pc, self_ref, boxes, passed, evals, result>>

Init ==
    /\ stages = <<>>
    /\ constructed = <<>>
    /\ pc = [t \in Threads |-> "idle"]
    /\ self_ref = [t \in Threads |-> NoStage]
    /\ boxes = [t \in Threads |-> NoBox]
    /\ passed = [t \in Threads |-> NoBox]
    /\ evals = [t \in Threads |-> 0]
    /\ result = [t \in Threads |-> NoResult]

---------------------------------------------------------------------------
(* Operations *)

\* Stage::<ST>::new(hardcoded_values, &p2s_address, verification_predicate).
\* A run builds one Stage, of either stage type, which all threads then share.
new(ST, hardcoded_values, p2s_address, verification_predicate) ==
    /\ DOMAIN stages = {}
    /\ stages' = stages @@
            (ST :> NewStage(ST, hardcoded_values, p2s_address, verification_predicate))
    /\ constructed' = constructed @@
            (ST :> [hardcoded_values       |-> hardcoded_values,
                    p2s_address            |-> p2s_address,
                    verification_predicate |-> verification_predicate])
    /\ UNCHANGED <<pc, self_ref, boxes, passed, evals, result>>

\* A thread enters stages[ST].verify_box(&b) with a box it owns.
Call(t, ST, b) ==
    /\ pc[t] = "idle"
    /\ ST \in DOMAIN stages
    /\ pc' = [pc EXCEPT ![t] = "address"]
    /\ self_ref' = [self_ref EXCEPT ![t] = ST]
    /\ boxes' = [boxes EXCEPT ![t] = b]
    /\ passed' = [passed EXCEPT ![t] = b]
    /\ UNCHANGED <<stages, constructed, evals, result>>

\* The address check with its `?` forgotten: a mismatch is computed and dropped.
CheckAddressIgnored(t) ==
    /\ pc[t] = "address"
    /\ pc' = [pc EXCEPT ![t] = "predicate"]
    /\ UNCHANGED <<stages, constructed, self_ref, boxes, passed, evals, result>>

\* The address check made under a try-lock on the stage: it reports a
\* mismatch whenever another thread is past its own address check.
CheckAddressTryLock(t) ==
    /\ pc[t] = "address"
    /\ IF /\ AddressMatches(stages[self_ref[t]], boxes[t])
          /\ \A u \in Threads \ {t} : pc[u] \notin {"predicate", "build"}
       THEN /\ pc' = [pc EXCEPT ![t] = "predicate"]
            /\ UNCHANGED result
       ELSE /\ pc' = [pc EXCEPT ![t] = "done"]
            /\ result' = [result EXCEPT ![t] = InvalidP2SAddress]
    /\ UNCHANGED <<stages, constructed, self_ref, boxes, passed, evals>>

\* verify_box, the address check and its `?`.
CheckAddress(t) ==
    /\ pc[t] = "address"
    /\ IF AddressMatches(stages[self_ref[t]], boxes[t])
       THEN /\ pc' = [pc EXCEPT ![t] = "predicate"]
            /\ UNCHANGED result
       ELSE /\ pc' = [pc EXCEPT ![t] = "done"]
            /\ result' = [result EXCEPT ![t] = InvalidP2SAddress]
    /\ UNCHANGED <<stages, constructed, self_ref, boxes, passed, evals>>

\* The predicate's error re-wrapped as OtherError instead of passed through.
EvalPredicateRewrapped(t) ==
    /\ pc[t] = "predicate"
    /\ evals' = [evals EXCEPT ![t] = @ + 1]
    /\ LET r == ApplyPredicate(stages[self_ref[t]].verification_predicate, boxes[t])
       IN  IF r.tag = "Ok"
           THEN /\ pc' = [pc EXCEPT ![t] = "build"]
                /\ UNCHANGED result
           ELSE /\ pc' = [pc EXCEPT ![t] = "done"]
                /\ result' = [result EXCEPT ![t] = OtherError(r.reason)]
    /\ UNCHANGED <<stages, constructed, self_ref, boxes, passed>>

\* The predicate called with its result dropped (no `?`).
EvalPredicateUnchecked(t) ==
    /\ pc[t] = "predicate"
    /\ evals' = [evals EXCEPT ![t] = @ + 1]
    /\ pc' = [pc EXCEPT ![t] = "build"]
    /\ UNCHANGED <<stages, constructed, self_ref, boxes, passed, result>>

\* The predicate called once to test and once more to fetch its error.
EvalPredicateTwice(t) ==
    /\ pc[t] = "predicate"
    /\ LET r == ApplyPredicate(stages[self_ref[t]].verification_predicate, boxes[t])
       IN  IF r.tag = "Ok"
           THEN /\ pc' = [pc EXCEPT ![t] = "build"]
                /\ evals' = [evals EXCEPT ![t] = @ + 1]
                /\ UNCHANGED result
           ELSE /\ pc' = [pc EXCEPT ![t] = "done"]
                /\ evals' = [evals EXCEPT ![t] = @ + 2]
                /\ result' = [result EXCEPT ![t] = r]
    /\ UNCHANGED <<stages, constructed, self_ref, boxes, passed>>

\* The predicate's result unwrapped instead of propagated: an error panics
\* the thread, which never returns.
EvalPredicateUnwrap(t) ==
    /\ pc[t] = "predicate"
    /\ evals' = [evals EXCEPT ![t] = @ + 1]
    /\ LET r == ApplyPredicate(stages[self_ref[t]].verification_predicate, boxes[t])
       IN  IF r.tag = "Ok"
           THEN pc' = [pc EXCEPT ![t] = "build"]
           ELSE pc' = [pc EXCEPT ![t] = "panicked"]
    /\ UNCHANGED <<stages, constructed, self_ref, boxes, passed, result>>

\* verify_box, the predicate call and its `?`.
EvalPredicate(t) ==
    /\ pc[t] = "predicate"
    /\ evals' = [evals EXCEPT ![t] = @ + 1]
    /\ LET r == ApplyPredicate(stages[self_ref[t]].verification_predicate, boxes[t])
       IN  IF r.tag = "Ok"
           THEN /\ pc' = [pc EXCEPT ![t] = "build"]
                /\ UNCHANGED result
           ELSE /\ pc' = [pc EXCEPT ![t] = "done"]
                /\ result' = [result EXCEPT ![t] = r]
    /\ UNCHANGED <<stages, constructed, self_ref, boxes, passed>>

\* The StageBox built from one scratch box shared by all calls in flight
\* (the box of the lowest-numbered thread that is inside verify_box).
BuildStageBoxShared(t) ==
    /\ pc[t] = "build"
    /\ pc' = [pc EXCEPT ![t] = "done"]
    /\ LET u == CHOOSE u \in Threads :
                    /\ pc[u] # "idle"
                    /\ \A w \in Threads : pc[w] # "idle" => u <= w
       IN  result' = [result EXCEPT ![t] =
                Ok(<<NewStageBox(stages[self_ref[t]], boxes[u])>>)]
    /\ UNCHANGED <<stages, constructed, self_ref, boxes, passed, evals>>

\* The StageBox built by moving the token holdings out of the caller's box.
BuildStageBoxTaking(t) ==
    /\ pc[t] = "build"
    /\ pc' = [pc EXCEPT ![t] = "done"]
    /\ result' = [result EXCEPT ![t] = Ok(<<NewStageBox(stages[self_ref[t]], boxes[t])>>)]
    /\ boxes' = [boxes EXCEPT ![t] = CloneWithoutTokens(@)]
    /\ UNCHANGED <<stages, constructed, self_ref, passed, evals>>

\* verify_box, building the StageBox and returning Ok(stage_box).
BuildStageBox(t) ==
    /\ pc[t] = "build"
    /\ pc' = [pc EXCEPT ![t] = "done"]
    /\ result' = [result EXCEPT ![t] = Ok(<<NewStageBox(stages[self_ref[t]], boxes[t])>>)]
    /\ UNCHANGED <<stages, constructed, self_ref, boxes, passed, evals>>

\* The caller is done with the returned value and with its box.
Return(t) ==
    /\ pc[t] = "done"
    /\ pc' = [pc EXCEPT ![t] = "idle"]
    /\ self_ref' = [self_ref EXCEPT ![t] = NoStage]
    /\ boxes' = [boxes EXCEPT ![t] = NoBox]
    /\ passed' = [passed EXCEPT ![t] = NoBox]
    /\ evals' = [evals EXCEPT ![t] = 0]
    /\ result' = [result EXCEPT ![t] = NoResult]
    /\ UNCHANGED <<stages, constructed>>

Next ==
    \/ \E ST \in StageTypes, a \in P2SAddressStrings, p \in Predicates :
          new(ST, HardcodedValuesFor(p), a, p)
    \/ \E t \in Threads, ST \in StageTypes, b \in Boxes : Call(t, ST, b)
    \/ \E t \in Threads : CheckAddress(t)
    \/ \E t \in Threads : EvalPredicate(t)
    \/ \E t \in Threads : BuildStageBox(t)
    \/ \E t \in Threads : Return(t)

Spec == Init /\ [][Next]_vars

---------------------------------------------------------------------------
(* Properties *)

\* Thread t is inside a verify_box call or holds the value it returned.
InCall(t) == pc[t] # "idle"

\* Thread t's verify_box call has returned.
Returned(t) == pc[t] = "done"

\* The Stage thread t's call borrows as &self.
SelfOf(t) == stages[self_ref[t]]

\* The box handed to thread t's call re-encodes to the stage's stored address.
AddressAgrees(t) ==
    SelfOf(t).p2s_address =
        AddressToStr("Mainnet", AddressP2S(SigmaSerialiseBytes(passed[t].ergo_tree)))

\* What the stage's predicate answers on the box handed to thread t's call.
PredicateAnswer(t) == ApplyPredicate(SelfOf(t).verification_predicate, passed[t])

\* C1: a call on a box whose recomputed address equals the stage's stored
\* address and on which the stage's predicate succeeds returns Ok with a
\* StageBox whose box equals the input box and whose stage is the stage's type.
C1_VerifySuccess ==
    \A t \in Threads :
        (Returned(t) /\ AddressAgrees(t) /\ PredicateAnswer(t).tag = "Ok") =>
            /\ result[t].tag = "Ok"
            /\ Len(result[t].value) = 1
            /\ result[t].value[1].ergo_box = passed[t]
            /\ result[t].value[1].stage = SelfOf(t).stage_type

C1_Witness ==
    \E t \in Threads :
        /\ Returned(t) /\ AddressAgrees(t) /\ PredicateAnswer(t).tag = "Ok"
        /\ SelfOf(t).verification_predicate = "staged"
        /\ result[t].tag = "Ok"
        /\ result[t].value[1].ergo_box.tokens # <<>>

\* C2: a call on a box whose recomputed address differs from the stage's
\* stored address never reaches the predicate (no invocation at any point of
\* the call) and returns InvalidP2SAddress, whatever the predicate would say.
C2_AddressCheckFirst ==
    \A t \in Threads :
        (InCall(t) /\ ~AddressAgrees(t)) =>
            /\ evals[t] = 0
            /\ pc[t] \in {"address", "done"}
            /\ Returned(t) => result[t] = InvalidP2SAddress

C2_Witness ==
    \E t, u \in Threads :
        /\ Returned(t) /\ ~AddressAgrees(t) /\ PredicateAnswer(t).tag = "Ok"
        /\ Returned(u) /\ ~AddressAgrees(u) /\ PredicateAnswer(u).tag = "Err"
        /\ result[t] = InvalidP2SAddress /\ result[u] = InvalidP2SAddress

\* C3: a call on a box that passes the address check but on which the
\* predicate returns an error returns exactly that error (kind and reason)
\* and no StageBox; min_amount on a box of value 50 gives
\* InvalidErgsValue("amount below minimum").
C3_PredicateErrorPropagated ==
    \A t \in Threads :
        (Returned(t) /\ AddressAgrees(t) /\ PredicateAnswer(t).tag = "Err") =>
            /\ result[t].tag = "Err"
            /\ result[t].error = PredicateAnswer(t).error
            /\ result[t].reason = PredicateAnswer(t).reason
            /\ result[t].error \in
                 {"InvalidErgsValue", "InvalidTokens", "InvalidRegisters", "OtherError"}
            /\ result[t].value = <<>>
            /\ (SelfOf(t).verification_predicate = "min_amount" /\ passed[t].value = 50) =>
                    result[t] = Err("InvalidErgsValue", "amount below minimum")

C3_Witness ==
    \E t \in Threads :
        /\ Returned(t) /\ AddressAgrees(t)
        /\ SelfOf(t).verification_predicate = "min_amount"
        /\ passed[t].value = 50
        /\ result[t] = Err("InvalidErgsValue", "amount below minimum")

\* C4: every StageBox that exists is held as the Ok value of a returned
\* verify_box call, carries the stage type of the Stage that call was made on,
\* and wraps a box that passes that Stage's address check and predicate, the
\* predicate having been run by the call.
C4_TokenImpliesVerified ==
    \A t \in Threads :
        result[t].value # <<>> =>
            /\ Returned(t)
            /\ result[t].tag = "Ok"
            /\ evals[t] = 1
            /\ LET token == result[t].value[1]
               IN  /\ token.stage = SelfOf(t).stage_type
                   /\ SelfOf(t).p2s_address =
                        AddressToStr("Mainnet",
                            AddressP2S(SigmaSerialiseBytes(token.ergo_box.ergo_tree)))
                   /\ ApplyPredicate(SelfOf(t).verification_predicate,
                                     token.ergo_box).tag = "Ok"

C4_Witness ==
    \E t \in Threads :
        /\ result[t].value # <<>>
        /\ result[t].value[1].stage = "StageB"
        /\ SelfOf(t).verification_predicate = "min_amount"

\* C5: two returned calls made on the same Stage with equal boxes hold equal
\* results, whenever each of them ran.
C5_Deterministic ==
    \A t, u \in Threads :
        (/\ Returned(t) /\ Returned(u)
         /\ SelfOf(t) = SelfOf(u)
         /\ passed[t] = passed[u]) => result[t] = result[u]

C5_Witness ==
    \E t, u \in Threads :
        /\ t # u
        /\ Returned(t) /\ Returned(u)
        /\ SelfOf(t) = SelfOf(u)
        /\ passed[t] = passed[u]
        /\ result[t].tag = "Ok" /\ result[u] = result[t]

\* C6: whatever the interleaving with other calls on the shared Stage, a
\* returned call holds the result verify_box gives for its own arguments when
\* run alone, and a returned StageBox wraps the box of its own call.
C6_CallsIndependent ==
    \A t \in Threads :
        Returned(t) =>
            /\ result[t] = verify_box(SelfOf(t), passed[t])
            /\ result[t].tag = "Ok" => result[t].value[1].ergo_box = passed[t]

C6_Witness ==
    \E t, u \in Threads :
        /\ t # u
        /\ Returned(t) /\ Returned(u)
        /\ result[t].tag = "Ok" /\ result[u].tag = "Ok"
        /\ passed[t] # passed[u]
        /\ result[t].value[1].ergo_box = passed[t]
        /\ result[u].value[1].ergo_box = passed[u]

\* C7 as stated: every returned call has evaluated the predicate exactly once.
C7_ExactlyOncePerCall ==
    \A t \in Threads : Returned(t) => evals[t] = 1

\* C7 (amended): a call evaluates the predicate at most once: exactly once
\* when the box passes the address check, not at all when it fails it.
C7_AtMostOncePerCall ==
    \A t \in Threads :
        /\ evals[t] <= 1
        /\ Returned(t) => evals[t] = (IF AddressAgrees(t) THEN 1 ELSE 0)

C7_Witness ==
    \E t, u \in Threads :
        /\ Returned(t) /\ AddressAgrees(t) /\ evals[t] = 1
        /\ PredicateAnswer(t).tag = "Err"
        /\ Returned(u) /\ ~AddressAgrees(u) /\ evals[u] = 0

\* C8: a built Stage holds the hardcoded values, address and predicate that
\* Stage::new was given, and the box a call borrows is the box the caller
\* handed in, during the call and after it returned, Ok or Err.
C8_NothingMutated ==
    /\ \A ST \in DOMAIN stages :
            /\ stages[ST].hardcoded_values = constructed[ST].hardcoded_values
            /\ stages[ST].p2s_address = constructed[ST].p2s_address
            /\ stages[ST].verification_predicate = constructed[ST].verification_predicate
    /\ \A t \in Threads : InCall(t) => boxes[t] = passed[t]

C8_Witness ==
    /\ \E ST \in DOMAIN stages : stages[ST].hardcoded_values # {}
    /\ \E t, u \in Threads :
            /\ Returned(t) /\ result[t].tag = "Ok" /\ boxes[t].tokens # <<>>
            /\ Returned(u) /\ result[u].tag = "Err"

\* The statements of verify_box a thread can be at.
Step(t) == CheckAddress(t) \/ EvalPredicate(t) \/ BuildStageBox(t)

\* C9: a call is always at a statement of verify_box that can execute, or has
\* returned; what it returned is Ok with one StageBox or Err with one of the
\* five error kinds, and an Err carries no StageBox.
C9_FailuresAreValues ==
    \A t \in Threads :
        /\ pc[t] \in {"idle", "address", "predicate", "build", "done"}
        /\ pc[t] \in {"address", "predicate", "build"} =>
                (ENABLED Step(t)) /\ result[t] = NoResult
        /\ Returned(t) =>
                \/ /\ result[t].tag = "Ok"
                   /\ Len(result[t].value) = 1
                   /\ result[t].error = "none"
                \/ /\ result[t].tag = "Err"
                   /\ result[t].error \in ErrorKinds
                   /\ result[t].value = <<>>

C9_Witness ==
    \E t, u \in Threads :
        /\ Returned(t) /\ result[t].tag = "Err" /\ result[t].error = "InvalidRegisters"
        /\ Returned(u) /\ result[u].tag = "Ok"

\* The address strings that encode a script of the model under a network
\* prefix other than Mainnet.
OtherNetworkAddresses ==
    {AddressToStr(n, AddressP2S(SigmaSerialiseBytes(tree))) :
        n \in NetworkPrefixes \ {"Mainnet"}, tree \in ErgoTrees}

\* C10: a Stage whose stored address is the encoding of a script under a
\* network prefix other than Mainnet answers InvalidP2SAddress to every call
\* and never invokes its predicate, also for boxes locked by that very script.
C10_MainnetOnly ==
    \A t \in Threads :
        (InCall(t) /\ SelfOf(t).p2s_address \in OtherNetworkAddresses) =>
            /\ evals[t] = 0
            /\ pc[t] \in {"address", "done"}
            /\ Returned(t) => result[t] = InvalidP2SAddress

C10_Witness ==
    \E t \in Threads :
        /\ Returned(t)
        /\ SelfOf(t).p2s_address =
             AddressToStr("Testnet", AddressP2S(SigmaSerialiseBytes(passed[t].ergo_tree)))
        /\ PredicateAnswer(t).tag = "Ok"
        /\ result[t] = InvalidP2SAddress

====
